---- MODULE Spec2Model ----
(***************************************************************************)
(* A model of @tralse/postgres-middleware: the request-scoped connection   *)
(* session (src/index.ts), the query runner executeDbQuery (lib/query.ts), *)
(* the retry wrapper manageDeadlocks it runs in, and the transaction       *)
(* manager (lib/transactions.ts).                                          *)
(*                                                                         *)
(* One caller drives the session: it starts an operation and awaits it.    *)
(* A statement handed to the connection completes in a later step, with an *)
(* outcome the database chooses; statements dispatched together complete   *)
(* in any order.                                                           *)
(***************************************************************************)
EXTENDS Naturals, Sequences, FiniteSets

(* ---------------------------------------------------------------- bounds *)

\* Longest list of statements a caller passes to a query.
MaxStmts == 3
\* Longest list of statements a caller passes while the session and the
\* manager are followed through their whole life.
MaxLifeStmts == 1
\* Reference numbers the generator hands out before the model stops starting
\* transaction queries.
MaxRefs == 2
\* Connections of the pool.
NumHandles == 2

(* ------------------------------------------------------------- constants *)

\* A faulty variant of MaxRetries: the budget taken as a number of retries after the
\* first attempt.
MaxRetriesAsRetries == 3 + 1

\* The attempt budget executeDbQuery hands to manageDeadlocks.
MaxRetries == 3
\* Backoff curve of manageDeadlocks: base * 2^(attempt-1), capped.
BaseDelay == 100
MaxBackoff == 8000

Handles == 1..NumHandles

\* `let client: PoolClient;` before any assignment.
NoClient == 0
\* An object that is not a connection (it has no "query" member); only a
\* direct caller of the exported executeDbQuery can pass it.
BadObj == NumHandles + 1

\* A reference number or a timestamp that was never assigned.
Unset == 0

(* ---------------------------------------------------------------- errors *)

NoErr == [cls |-> "none", code |-> "none", msg |-> "none", about |-> "none",
          call |-> 0]

\* new DatabaseError(message, code): the code defaults to DB_ERR.
DatabaseError(msg, code) ==
  [cls |-> "DatabaseError",
   code |-> IF code = "undefined" THEN "DB_ERR" ELSE code,
   msg |-> msg, about |-> "none", call |-> 0]

\* new TransactionError(message, code): the code defaults to TRANSACTION_ERR.
\* about: the text interpolated into the message, "none" if there is none.
TransactionError(msg, about, code) ==
  [cls |-> "TransactionError",
   code |-> IF code = "undefined" THEN "TRANSACTION_ERR" ELSE code,
   msg |-> msg, about |-> about, call |-> 0]

\* What the connection can answer a command with: the result, a transient
\* conflict (deadlock detected, 40P01), another
\* error of the database (23505), or an error of the driver with no code.
Outcomes == {"ok", "40P01", "23505", "undefined"}

\* The error object the connection rejects call number c with.
PgError(code, c) ==
  [cls |-> IF code = "undefined" THEN "Error" ELSE "PgError",
   code |-> code, msg |-> "pg", about |-> "none", call |-> c]

\* The result object the connection resolves call number c with; stmt is the
\* position of the statement in the request.
Result(stmt, c) == [stmt |-> stmt, call |-> c]

\* The conflict signature manageDeadlocks retries on.
IsConflict(e) == e.code \in {"40001", "40P01"}

(* ----------------------------------------------------------------- state *)

VARIABLES
  client,       \* index.ts: the session's `client` (NoClient until connected)
  leased,       \* the pool: handles checked out and not yet released
  mgr,          \* transactions.ts: the manager's client, uuid, timestamp
  refSeq,       \* reference numbers generateRefNo has handed out
  genLog,       \* history: the references generated for the manager
  pc,           \* where the operation in progress stands ("idle": none)
  req,          \* the operation in progress, or the last one
  attempt,      \* manageDeadlocks: number of the attempt in progress
  queryResult,  \* query.ts: results pushed by the sequential loop
  settled,      \* Promise.all: the results of the statements that fulfilled
  inflight,     \* calls of this operation the connection has not answered
  issued,       \* history: commands this operation handed to a connection
  attemptErrs,  \* history: the failure each failed attempt ended with
  delays,       \* history: the backoff waited after each failed attempt
  reordered,    \* history: a parallel statement of this attempt was answered
                \* before one listed ahead of it
  txState,      \* history: the manager's place in its lifecycle
  initCalled,   \* history: init() was called on the manager
  ret           \* what the last operation returned or threw

vars == <<client, leased, mgr, refSeq, genLog, pc, req, attempt, queryResult,
          settled, inflight, issued, attemptErrs, delays, reordered, txState,
          initCalled, ret>>

\* The caller works with one manager at a time, the one its last call of
\* transaction() returned. NoMgr: transaction() has not been called.
NoMgr == [made |-> FALSE, client |-> NoClient, uuid |-> Unset, timestamp |-> Unset]

NoInfo == [connection |-> FALSE, referenceNo |-> Unset, timestamp |-> Unset]

\* An operation that has not settled.
Pending == [status |-> "pending", shape |-> "void", value |-> <<>>,
            err |-> NoErr, info |-> NoInfo]

Returned(shape, value) == [status |-> "ok", shape |-> shape, value |-> value,
                           err |-> NoErr, info |-> NoInfo]

Threw(e) == [status |-> "err", shape |-> "void", value |-> <<>>,
             err |-> e, info |-> NoInfo]

\* A request: the operation, the client it runs on, and the shape of sql,
\* params and options.
Req(op, c, multi, n, pArr, pLen, par) ==
  [op |-> op, client |-> c, multi |-> multi, n |-> n,
   pArr |-> pArr, pLen |-> pLen, parallel |-> par]

NoReq == Req("none", NoClient, FALSE, 1, TRUE, 0, FALSE)

Init ==
  /\ client = NoClient
  /\ leased = {}
  /\ mgr = NoMgr
  /\ refSeq = 0
  /\ genLog = <<>>
  /\ pc = "idle"
  /\ req = NoReq
  /\ attempt = 0
  /\ queryResult = <<>>
  /\ settled = <<>>
  /\ inflight = {}
  /\ issued = <<>>
  /\ attemptErrs = <<>>
  /\ delays = <<>>
  /\ reordered = FALSE
  /\ txState = "Uninitialized"
  /\ initCalled = FALSE
  /\ ret = Pending

(* ------------------------------------------------- lib/query.ts, one attempt *)

\* A faulty variant of ClientValid: only `!client` is tested.
ClientTruthy(c) == c # NoClient

\* `!client || !('query' in client)` is false.
ClientValid(c) == c # NoClient /\ c \in Handles

\* A faulty variant of Mismatch: only too few parameter sets are refused.
MismatchTooFew(r) == ~r.pArr \/ r.n > r.pLen

\* `!Array.isArray(params) || sql.length !== params.length`
Mismatch(r) == ~r.pArr \/ r.n # r.pLen

\* A faulty variant of UnitCatch: the catch wraps what it caught.
UnitCatchWrap(e) == DatabaseError(e.msg, e.code)

\* `catch (error) { ...; throw error; }` of the unit of work.
UnitCatch(e) == e

\* A command handed to connection h in attempt a; stmt is the position of
\* the statement in the request (0 for BEGIN, COMMIT, ROLLBACK). answer is
\* history: what the connection answered it with ("none": nothing yet,
\* "unseen": an answer nobody waited for).
Cmd(cmd, stmt, h, a) ==
  [cmd |-> cmd, stmt |-> stmt, h |-> h, attempt |-> a, answer |-> "none"]

Answered(log, c, o) == [log EXCEPT ![c].answer = o]

\* A faulty variant of Rejects: only a conflict is thrown, other errors are swallowed.
RejectsConflictOnly(o) == o = "40P01"

\* `await client.query(...)` throws: the connection answered with an error.
Rejects(o) == o # "ok"

\* A faulty variant of FreshResult: one array outside the unit of work, kept across
\* attempts.
StaleResult == queryResult

\* `let queryResult: QueryResult | QueryResult[] = [];` of each attempt.
FreshResult == <<>>

\* `sql.map((query, index) => client.query(query, params[index]))`: the
\* commands the parallel branch hands over, all in the one synchronous step.
ParallelCmds(r, a) == [k \in 1..r.n |-> Cmd("STMT", k, r.client, a)]

\* A position of the array of Promise.all that no result has filled yet.
Hole == Result(0, 0)

Max(a, b) == IF a < b THEN b ELSE a

\* A faulty variant of PromiseAllStore: results collected in the order they arrive.
PromiseAllAppend(arr, k, x) == Append(arr, x)

\* Promise.all keeps the result x of its k-th promise at position k of its
\* array, whenever that promise fulfils.
PromiseAllStore(arr, k, x) ==
  [j \in 1..Max(Len(arr), k) |->
     IF j = k THEN x ELSE IF j <= Len(arr) THEN arr[j] ELSE Hole]

\* The promises of Promise.all that have fulfilled.
Fulfilled(arr) == Cardinality({j \in DOMAIN arr : arr[j] # Hole})

\* A faulty variant of LoopStart: the loop goes on after the statements whose
\* results the attempt before it pushed.
LoopResume == Len(queryResult) + 1

\* `for (let i = 0; ...)`: the statement the sequential loop of an attempt
\* starts with, the first.
LoopStart == 1

\* A faulty variant of NextStmt: the loop steps over a statement.
NextStmtSkip(k) == k + 2

\* `i++`: the statement the sequential loop goes on with after statement k.
NextStmt(k) == k + 1

\* `queryResult.push(result)`
Push(qr, x) == Append(qr, x)

\* A faulty variant of SingleValue: the result pushed into the array.
SingleAsList(x) == Returned("many", <<x>>)

\* `queryResult = result`: the single statement's result itself, no array.
SingleValue(x) == Returned("one", <<x>>)

(* ------------------------------------------------------- manageDeadlocks *)

\* Whether attempt k, failed with e, is followed by another attempt.
ShouldRetry(e, k, max) == IsConflict(e) /\ k < max

Min(a, b) == IF a < b THEN a ELSE b

\* A faulty variant of Backoff: the attempts counted from zero, so no wait
\* after the first attempt.
BackoffFromZero(k) == Min(BaseDelay * (k - 1), MaxBackoff)

\* The wait after failed attempt k.
Backoff(k) == Min(BaseDelay * 2^(k - 1), MaxBackoff)

(* ------------------------------------------- lib/transactions.ts, helpers *)

\* systemGenerateReferenceNo(): a fresh reference number and the time now.
generateRefNo == [uuid |-> refSeq + 1, timestamp |-> refSeq + 1]

\* A faulty variant of StoreRef: the reference is kept once it is set.
StoreRefOnce(mr, ref) ==
  IF mr.uuid = Unset
    THEN [mr EXCEPT !.uuid = ref.uuid, !.timestamp = ref.timestamp]
    ELSE mr

\* `timestamp = ref.timestamp; uuid = ref.uuid;`
StoreRef(mr, ref) == [mr EXCEPT !.uuid = ref.uuid, !.timestamp = ref.timestamp]

\* A faulty variant of InitCatch: whatever is caught is wrapped.
InitCatchWrapAll(e) ==
  TransactionError("Failed to initialize transaction", e.code, "undefined")

\* The catch of init().
InitCatch(e) ==
  IF e.cls \in {"DatabaseError", "TransactionError"}
    THEN TransactionError("Failed to initialize transaction", e.code, "undefined")
    ELSE e

\* A faulty variant of QueryCatch: whatever is caught is wrapped.
QueryCatchWrapAll(e) ==
  TransactionError("Failed to initialize transaction", e.code, "undefined")

\* The catch of query(): the same wrapping, with init's message.
QueryCatch(e) ==
  IF e.cls \in {"DatabaseError", "TransactionError"}
    THEN TransactionError("Failed to initialize transaction", e.code, "undefined")
    ELSE e

\* A faulty variant of CommitCatch: the catch of init(), which rethrows what is
\* no DatabaseError or TransactionError.
CommitCatchAsInit(e) == InitCatch(e)

\* The catch of commit().
CommitCatch(e) ==
  IF e.code # "CONN_NOT_INIT"
    THEN TransactionError("Failed to commit transaction", e.code, "undefined")
    ELSE TransactionError(e.msg, "none", e.code)

\* rollback() has no catch: a rejected ROLLBACK rejects rollback().
RollbackFailed(e) == Threw(e)

\* retrieve()
Retrieve(mr) ==
  [connection |-> mr.client # NoClient, referenceNo |-> mr.uuid,
   timestamp |-> mr.timestamp]

(* ------------------------------------------------ settling an executeDbQuery *)

\* A faulty variant of ExecDone: the manager's query() stores a fresh
\* reference when the execution has failed, too.
ExecDoneStoreAlways(out) ==
  /\ pc' = "idle"
  /\ IF req.op = "txQuery"
       THEN /\ mgr' = StoreRef(mgr, generateRefNo)
            /\ refSeq' = refSeq + 1
            /\ genLog' = Append(genLog, generateRefNo)
            /\ ret' = IF out.status = "ok" THEN out ELSE Threw(QueryCatch(out.err))
       ELSE /\ ret' = out
            /\ UNCHANGED <<mgr, refSeq, genLog>>

\* executeDbQuery settles with `out`. A session or direct caller gets `out`;
\* the manager's query() stores a fresh reference on success and passes a
\* failure through its catch.
ExecDone(out) ==
  /\ pc' = "idle"
  /\ IF req.op = "txQuery"
       THEN IF out.status = "ok"
              THEN /\ mgr' = StoreRef(mgr, generateRefNo)
                   /\ refSeq' = refSeq + 1
                   /\ genLog' = Append(genLog, generateRefNo)
                   /\ ret' = out
              ELSE /\ ret' = Threw(QueryCatch(out.err))
                   /\ UNCHANGED <<mgr, refSeq, genLog>>
       ELSE /\ ret' = out
            /\ UNCHANGED <<mgr, refSeq, genLog>>

\* The unit of work of the attempt in progress fulfilled with `out`:
\* manageDeadlocks returns it.
UnitSucceeded(out) ==
  /\ UNCHANGED <<attemptErrs, delays>>
  /\ ExecDone(out)

\* The unit of work of the attempt in progress rejected with e:
\* manageDeadlocks waits and retries, or rethrows.
UnitFailed(e) ==
  /\ attemptErrs' = Append(attemptErrs, e)
  /\ IF ShouldRetry(UnitCatch(e), attempt, MaxRetries)
       THEN /\ pc' = "backoff"
            /\ delays' = Append(delays, Backoff(attempt))
            /\ UNCHANGED <<mgr, refSeq, genLog, ret>>
       ELSE /\ delays' = delays
            /\ ExecDone(Threw(UnitCatch(e)))

\* A faulty variant of QueryCatchCmds: the catch of query() rolls the
\* transaction back by itself.
QueryCatchRollback ==
  <<[Cmd("ROLLBACK", 0, req.client, attempt) EXCEPT !.answer = "unseen"]>>

\* The commands the catch of the manager's query() hands to the client: it
\* logs and throws, nothing else.
QueryCatchCmds == <<>>

\* The commands handed over so far (log), as they are once the attempt in
\* progress has failed with e: when that ends a query() of the manager, its
\* catch has run.
FailedLog(log, e) ==
  IF req.op = "txQuery" /\ ~ShouldRetry(UnitCatch(e), attempt, MaxRetries)
    THEN log \o QueryCatchCmds
    ELSE log

(* ------------------------------------------------------ starting a query *)

\* The shapes of (sql, params, options) a caller passes: one statement, or a
\* list of 0..MaxStmts; params an array of some length, or no array.
Shapes ==
  {Req("none", NoClient, FALSE, 1, TRUE, l, par) :
     l \in 0..1, par \in BOOLEAN}
  \cup
  {Req("none", NoClient, TRUE, n, TRUE, l, par) :
     n \in 0..MaxStmts, l \in 0..MaxStmts, par \in BOOLEAN}
  \cup
  {Req("none", NoClient, TRUE, n, FALSE, 0, par) :
     n \in 0..MaxStmts, par \in BOOLEAN}

\* A caller starts executeDbQuery(c, sql, params, options) as operation op.
StartExec(op, c, sh) ==
  /\ pc = "idle"
  /\ pc' = "attempt"
  /\ req' = [sh EXCEPT !.op = op, !.client = c]
  /\ attempt' = 1
  /\ queryResult' = <<>>
  /\ settled' = <<>>
  /\ inflight' = {}
  /\ issued' = <<>>
  /\ attemptErrs' = <<>>
  /\ delays' = <<>>
  /\ reordered' = FALSE
  /\ ret' = Pending
  /\ UNCHANGED <<client, leased, mgr, refSeq, genLog, txState, initCalled>>

\* index.ts query(): executeDbQuery on the session's client.
SessionQuery(sh) == StartExec("query", client, sh)

\* transactions.ts query(): executeDbQuery on the manager's client.
TxQuery(sh) ==
  /\ mgr.made
  /\ refSeq < MaxRefs
  /\ StartExec("txQuery", mgr.client, sh)

(* ------------------------------------------------------------ one attempt *)

\* manageDeadlocks invokes the unit of work: the checks of the client and of
\* the shape, then the first await.
RunAttempt ==
  /\ pc = "attempt"
  /\ queryResult' = FreshResult
  /\ settled' = <<>>
  /\ reordered' = FALSE
  /\ UNCHANGED <<client, leased, req, attempt, txState, initCalled>>
  /\ IF ~ClientValid(req.client)
       THEN /\ UnitFailed(DatabaseError("Could'nt find a client connection", "undefined"))
            /\ issued' = FailedLog(issued,
                 DatabaseError("Could'nt find a client connection", "undefined"))
            /\ UNCHANGED inflight
     ELSE IF req.multi /\ Mismatch(req)
       THEN /\ UnitFailed(DatabaseError("Mismatched SQL queries and parameters", "undefined"))
            /\ issued' = FailedLog(issued,
                 DatabaseError("Mismatched SQL queries and parameters", "undefined"))
            /\ UNCHANGED inflight
     ELSE IF req.multi /\ req.n = 0
       THEN /\ UnitSucceeded(Returned("many", <<>>))
            /\ UNCHANGED <<issued, inflight>>
     ELSE IF req.multi /\ req.parallel
       THEN /\ issued' = issued \o ParallelCmds(req, attempt)
            /\ inflight' = inflight \cup (Len(issued) + 1 .. Len(issued) + req.n)
            /\ pc' = "par"
            /\ UNCHANGED <<mgr, refSeq, genLog, ret, attemptErrs, delays>>
     ELSE /\ issued' = Append(issued,
                 Cmd("STMT", IF req.multi THEN LoopStart ELSE 1, req.client, attempt))
          /\ inflight' = inflight \cup {Len(issued) + 1}
          /\ pc' = IF req.multi THEN "seq" ELSE "single"
          /\ UNCHANGED <<mgr, refSeq, genLog, ret, attemptErrs, delays>>

\* The backoff has elapsed: the next attempt.
BackoffDone ==
  /\ pc = "backoff"
  /\ pc' = "attempt"
  /\ attempt' = attempt + 1
  /\ UNCHANGED <<client, leased, mgr, refSeq, genLog, req, queryResult,
                 settled, inflight, issued, attemptErrs, delays, reordered,
                 txState, initCalled, ret>>

\* Call c is one the attempt in progress is waiting for.
Awaited(c) == c \in inflight /\ issued[c].attempt = attempt

\* The connection answers the single statement.
CompleteSingle(c, o) ==
  /\ pc = "single" /\ Awaited(c)
  /\ inflight' = inflight \ {c}
  /\ IF Rejects(o)
       THEN /\ UnitFailed(PgError(o, c))
            /\ issued' = FailedLog(Answered(issued, c, o), PgError(o, c))
       ELSE /\ UnitSucceeded(SingleValue(Result(1, c)))
            /\ issued' = Answered(issued, c, o)
  /\ UNCHANGED <<client, leased, req, attempt, queryResult, settled,
                 reordered, txState, initCalled>>

\* The connection answers the statement the sequential loop waits for: the
\* loop pushes the result and goes on to the next, or the failure ends it.
CompleteSeq(c, o) ==
  /\ pc = "seq" /\ Awaited(c)
  /\ UNCHANGED <<client, leased, req, attempt, settled, reordered, txState,
                 initCalled>>
  /\ IF Rejects(o)
       THEN /\ UnitFailed(PgError(o, c))
            /\ inflight' = inflight \ {c}
            /\ issued' = FailedLog(Answered(issued, c, o), PgError(o, c))
            /\ UNCHANGED queryResult
     ELSE /\ queryResult' = Push(queryResult, Result(issued[c].stmt, c))
          /\ IF issued[c].stmt < req.n
               THEN /\ issued' = Append(Answered(issued, c, o),
                          Cmd("STMT", NextStmt(issued[c].stmt), req.client, attempt))
                    /\ inflight' = (inflight \ {c}) \cup {Len(issued) + 1}
                    /\ UNCHANGED <<pc, mgr, refSeq, genLog, ret, attemptErrs, delays>>
               ELSE /\ issued' = Answered(issued, c, o)
                    /\ inflight' = inflight \ {c}
                    /\ UnitSucceeded(Returned("many", queryResult'))

\* The connection answers one of the statements Promise.all waits for: the
\* first rejection rejects it, the last fulfilment fulfils it.
CompletePar(c, o) ==
  /\ pc = "par" /\ Awaited(c)
  /\ inflight' = inflight \ {c}
  /\ issued' = IF Rejects(o)
                 THEN FailedLog(Answered(issued, c, o), PgError(o, c))
                 ELSE Answered(issued, c, o)
  /\ reordered' = (reordered \/ \E d \in inflight : Awaited(d) /\ d < c)
  /\ UNCHANGED <<client, leased, req, attempt, queryResult, txState,
                 initCalled>>
  /\ IF Rejects(o)
       THEN /\ UnitFailed(PgError(o, c))
            /\ UNCHANGED settled
     ELSE /\ settled' = PromiseAllStore(settled, issued[c].stmt,
                                        Result(issued[c].stmt, c))
          /\ IF Fulfilled(settled') = req.n
               THEN UnitSucceeded(Returned("many", settled'))
               ELSE UNCHANGED <<pc, mgr, refSeq, genLog, ret, attemptErrs, delays>>

\* Call c is in flight and nobody waits for it any more: a statement of a
\* Promise.all that has already rejected.
Orphan(c) ==
  c \in inflight /\ ~(pc \in {"single", "seq", "par", "ctl"} /\ Awaited(c))

\* The connection answers an orphan; it answers the orphans in the order it
\* was handed them, and nobody looks at the answer.
CompleteOrphan(c) ==
  /\ Orphan(c)
  /\ \A d \in inflight : Orphan(d) => c <= d
  /\ inflight' = inflight \ {c}
  /\ issued' = Answered(issued, c, "unseen")
  /\ UNCHANGED <<client, leased, mgr, refSeq, genLog, pc, req, attempt,
                 queryResult, settled, attemptErrs, delays, reordered,
                 txState, initCalled, ret>>

(* ------------------------------------- lib/transactions.ts, the manager *)

\* An operation that is no executeDbQuery starts: the history of the
\* previous operation is dropped.
StartOp(op, c) ==
  /\ pc = "idle"
  /\ req' = [NoReq EXCEPT !.op = op, !.client = c]
  /\ attempt' = 1
  /\ queryResult' = <<>>
  /\ settled' = <<>>
  /\ attemptErrs' = <<>>
  /\ delays' = <<>>
  /\ reordered' = FALSE

\* init(), commit() and rollback() hand their command to the manager's
\* client and wait for the answer.
IssueCtl(op, cmd) ==
  /\ StartOp(op, mgr.client)
  /\ pc' = "ctl"
  /\ issued' = <<Cmd(cmd, 0, mgr.client, 1)>>
  /\ inflight' = {1}
  /\ ret' = Pending
  /\ UNCHANGED <<client, leased, mgr, refSeq, genLog, txState>>

\* An operation that settles in the step it starts in, without a command.
Immediate(op, c, out) ==
  /\ StartOp(op, c)
  /\ pc' = "idle"
  /\ issued' = <<>>
  /\ inflight' = {}
  /\ ret' = out

\* init(): BEGIN, or with no client the DatabaseError its catch wraps.
TxInit ==
  /\ mgr.made
  /\ initCalled' = TRUE
  /\ IF mgr.client = NoClient
       THEN /\ Immediate("init", NoClient,
                 Threw(InitCatch(DatabaseError("Could'nt find a client connection", "undefined"))))
            /\ UNCHANGED <<client, leased, mgr, refSeq, genLog, txState>>
       ELSE IssueCtl("init", "BEGIN")

\* A faulty variant of TxCommit: a transaction that is committed or rolled
\* back is not committed again.
TxCommitGuarded ==
  /\ mgr.made
  /\ IF mgr.client = NoClient \/ txState = "Terminated"
       THEN /\ Immediate("commit", mgr.client,
                 Threw(CommitCatch(DatabaseError("Could'nt find a client connection", "undefined"))))
            /\ UNCHANGED <<client, leased, mgr, refSeq, genLog, txState, initCalled>>
       ELSE IssueCtl("commit", "COMMIT") /\ UNCHANGED initCalled

\* commit(): COMMIT, or with no client the DatabaseError its catch wraps.
TxCommit ==
  /\ mgr.made
  /\ IF mgr.client = NoClient
       THEN /\ Immediate("commit", NoClient,
                 Threw(CommitCatch(DatabaseError("Could'nt find a client connection", "undefined"))))
            /\ UNCHANGED <<client, leased, mgr, refSeq, genLog, txState, initCalled>>
       ELSE IssueCtl("commit", "COMMIT") /\ UNCHANGED initCalled

\* A faulty variant of TxRollback: ROLLBACK is sent without looking at the
\* client.
TxRollbackUnguarded ==
  /\ mgr.made
  /\ IssueCtl("rollback", "ROLLBACK") /\ UNCHANGED initCalled

\* rollback(): ROLLBACK if there is a client, nothing otherwise.
TxRollback ==
  /\ mgr.made
  /\ IF mgr.client = NoClient
       THEN /\ Immediate("rollback", NoClient, Returned("void", <<>>))
            /\ UNCHANGED <<client, leased, mgr, refSeq, genLog, txState, initCalled>>
       ELSE IssueCtl("rollback", "ROLLBACK") /\ UNCHANGED initCalled

\* What init(), commit() or rollback() settles with when the connection
\* answers its command with o.
CtlOutcome(op, o, c) ==
  IF o = "ok" THEN Returned("void", <<>>)
  ELSE IF op = "init" THEN Threw(InitCatch(PgError(o, c)))
  ELSE IF op = "commit" THEN Threw(CommitCatch(PgError(o, c)))
  ELSE RollbackFailed(PgError(o, c))

\* A faulty variant of CompleteCtl: the manager gives the connection back to
\* the pool once COMMIT or ROLLBACK has succeeded.
CompleteCtlReleasing(c, o) ==
  /\ pc = "ctl" /\ Awaited(c)
  /\ pc' = "idle"
  /\ inflight' = inflight \ {c}
  /\ issued' = Answered(issued, c, o)
  /\ ret' = CtlOutcome(req.op, o, c)
  /\ txState' = IF Rejects(o) THEN txState
                ELSE IF req.op = "init" THEN "Active" ELSE "Terminated"
  /\ leased' = IF Rejects(o) \/ req.op = "init" THEN leased
               ELSE leased \ {req.client}
  /\ UNCHANGED <<client, mgr, refSeq, genLog, req, attempt,
                 queryResult, settled, attemptErrs, delays, reordered,
                 initCalled>>

\* A faulty variant of CompleteCtl: the command runs in the retry loop, and
\* is sent again when the connection answers it with a conflict.
CompleteCtlRetrying(c, o) ==
  /\ pc = "ctl" /\ Awaited(c)
  /\ IF ShouldRetry(PgError(o, c), attempt, MaxRetries)
       THEN /\ attempt' = attempt + 1
            /\ issued' = Append(Answered(issued, c, o),
                                 Cmd(issued[c].cmd, 0, req.client, attempt + 1))
            /\ inflight' = {Len(issued) + 1}
            /\ UNCHANGED <<pc, ret, txState>>
       ELSE /\ pc' = "idle"
            /\ inflight' = inflight \ {c}
            /\ issued' = Answered(issued, c, o)
            /\ ret' = CtlOutcome(req.op, o, c)
            /\ txState' = IF Rejects(o) THEN txState
                          ELSE IF req.op = "init" THEN "Active" ELSE "Terminated"
            /\ UNCHANGED attempt
  /\ UNCHANGED <<client, leased, mgr, refSeq, genLog, req,
                 queryResult, settled, attemptErrs, delays, reordered,
                 initCalled>>

\* The connection answers BEGIN, COMMIT or ROLLBACK.
CompleteCtl(c, o) ==
  /\ pc = "ctl" /\ Awaited(c)
  /\ pc' = "idle"
  /\ inflight' = inflight \ {c}
  /\ issued' = Answered(issued, c, o)
  /\ ret' = CtlOutcome(req.op, o, c)
  /\ txState' = IF Rejects(o) THEN txState
                ELSE IF req.op = "init" THEN "Active" ELSE "Terminated"
  /\ UNCHANGED <<client, leased, mgr, refSeq, genLog, req, attempt,
                 queryResult, settled, attemptErrs, delays, reordered,
                 initCalled>>

\* retrieve(): a synchronous read.
TxRetrieve ==
  /\ mgr.made
  /\ Immediate("retrieve", mgr.client,
       [Returned("void", <<>>) EXCEPT !.info = Retrieve(mgr)])
  /\ UNCHANGED <<client, leased, mgr, refSeq, genLog, txState, initCalled>>

(* ---------------------------------------------- index.ts, the session *)

\* A faulty variant of InitializeConnection: the manager reads the session's
\* `client` variable instead of its own copy, so it follows the session.
InitializeConnectionRebinding ==
  \/ \E h \in Handles \ leased :
       /\ Immediate("initializeConnection", h, Returned("void", <<>>))
       /\ client' = h
       /\ leased' = leased \cup {h}
       /\ mgr' = IF mgr.made THEN [mgr EXCEPT !.client = h] ELSE mgr
       /\ UNCHANGED <<refSeq, genLog, txState, initCalled>>
  \/ /\ Immediate("initializeConnection", client,
          Threw(DatabaseError("Error initializing database", "undefined")))
     /\ UNCHANGED <<client, leased, mgr, refSeq, genLog, txState, initCalled>>

\* initializeConnection(): pool.connect() hands out a free connection, or
\* rejects and the session throws a DatabaseError.
InitializeConnection ==
  \/ \E h \in Handles \ leased :
       /\ Immediate("initializeConnection", h, Returned("void", <<>>))
       /\ client' = h
       /\ leased' = leased \cup {h}
       /\ UNCHANGED <<mgr, refSeq, genLog, txState, initCalled>>
  \/ /\ Immediate("initializeConnection", client,
          Threw(DatabaseError("Error initializing database", "undefined")))
     /\ UNCHANGED <<client, leased, mgr, refSeq, genLog, txState, initCalled>>

\* transaction(): a new manager on the session's client as it is now.
Transaction ==
  /\ Immediate("transaction", client, Returned("void", <<>>))
  /\ mgr' = [NoMgr EXCEPT !.made = TRUE, !.client = client]
  /\ genLog' = <<>>
  /\ txState' = "Uninitialized"
  /\ initCalled' = FALSE
  /\ UNCHANGED <<client, leased, refSeq>>

\* The catch of releaseConnection().
ReleaseCatch(e) ==
  IF e.code = "CONN_NOT_INIT" THEN Returned("void", <<>>)
  ELSE Threw(DatabaseError(e.msg, e.code))

\* A faulty variant of ReleaseConnection: the session forgets the connection
\* it has released.
ReleaseConnectionClearing ==
  /\ IF ~ClientValid(client)
       THEN /\ Immediate("releaseConnection", client,
                 ReleaseCatch(DatabaseError("Could'nt find a client connection", "undefined")))
            /\ UNCHANGED <<leased, client>>
     ELSE IF client \in leased
       THEN /\ Immediate("releaseConnection", client, Returned("void", <<>>))
            /\ leased' = leased \ {client}
            /\ client' = NoClient
     ELSE /\ Immediate("releaseConnection", client,
               ReleaseCatch([PgError("undefined", 0) EXCEPT !.msg = "already released"]))
          /\ UNCHANGED <<leased, client>>
  /\ UNCHANGED <<mgr, refSeq, genLog, txState, initCalled>>

\* releaseConnection(): client.release(), which the pool refuses for a
\* connection it already has back; with no client the DatabaseError goes
\* through the catch. `client` is left as it is.
ReleaseConnection ==
  /\ IF ~ClientValid(client)
       THEN /\ Immediate("releaseConnection", client,
                 ReleaseCatch(DatabaseError("Could'nt find a client connection", "undefined")))
            /\ leased' = leased
     ELSE IF client \in leased
       THEN /\ Immediate("releaseConnection", client, Returned("void", <<>>))
            /\ leased' = leased \ {client}
     ELSE /\ Immediate("releaseConnection", client,
               ReleaseCatch([PgError("undefined", 0) EXCEPT !.msg = "already released"]))
          /\ leased' = leased
  /\ UNCHANGED <<client, mgr, refSeq, genLog, txState, initCalled>>

(* ------------------------------------------------------- specification *)

\* The clients a direct caller of executeDbQuery passes: none, an object
\* that is no connection, a connection (which one makes no difference).
DirectClients == {NoClient, BadObj, CHOOSE h \in Handles : TRUE}

\* The shapes the caller of the session and of the manager uses: short
\* lists, run sequentially (ExecSpec below runs every shape).
LifeShapes ==
  {sh \in Shapes : /\ ~sh.parallel
                   /\ sh.n <= MaxLifeStmts /\ sh.pLen <= MaxLifeStmts
                   /\ (sh.multi \/ sh.pLen = 0)}

Next ==
  \/ InitializeConnection
  \/ Transaction
  \/ ReleaseConnection
  \/ \E sh \in LifeShapes : SessionQuery(sh)
  \/ \E sh \in LifeShapes : TxQuery(sh)
  \/ TxInit
  \/ TxCommit
  \/ TxRollback
  \/ TxRetrieve
  \/ RunAttempt
  \/ BackoffDone
  \/ \E c \in inflight, o \in Outcomes : CompleteSingle(c, o)
  \/ \E c \in inflight, o \in Outcomes : CompleteSeq(c, o)
  \/ \E c \in inflight, o \in Outcomes : CompleteCtl(c, o)

Spec == Init /\ [][Next]_vars

\* One call of executeDbQuery on its own, from the moment it is made: the
\* session's query() before initializeConnection(), or the exported
\* executeDbQuery with a client of the caller's, for every shape of request.
ExecInit ==
  /\ client = NoClient
  /\ leased = {}
  /\ mgr = NoMgr
  /\ refSeq = 0
  /\ genLog = <<>>
  /\ pc = "attempt"
  /\ req \in {[sh EXCEPT !.op = "query", !.client = NoClient] : sh \in Shapes}
            \cup {[sh EXCEPT !.op = "direct", !.client = c] :
                     sh \in Shapes, c \in DirectClients}
  /\ attempt = 1
  /\ queryResult = <<>>
  /\ settled = <<>>
  /\ inflight = {}
  /\ issued = <<>>
  /\ attemptErrs = <<>>
  /\ delays = <<>>
  /\ reordered = FALSE
  /\ txState = "Uninitialized"
  /\ initCalled = FALSE
  /\ ret = Pending

ExecNext ==
  \/ RunAttempt
  \/ BackoffDone
  \/ \E c \in inflight, o \in Outcomes : CompleteSingle(c, o)
  \/ \E c \in inflight, o \in Outcomes : CompleteSeq(c, o)
  \/ \E c \in inflight, o \in Outcomes : CompletePar(c, o)
  \/ \E c \in inflight : CompleteOrphan(c)

ExecSpec == ExecInit /\ [][ExecNext]_vars

TypeOK ==
  /\ client \in {NoClient} \cup Handles
  /\ leased \subseteq Handles
  /\ pc \in {"idle", "attempt", "backoff", "single", "seq", "par", "ctl"}
  /\ attempt \in 0..MaxRetries
  /\ refSeq \in 0..MaxRefs
  /\ initCalled \in BOOLEAN
  /\ initCalled => mgr.made
  /\ inflight \subseteq DOMAIN issued
  /\ ret.status \in {"pending", "ok", "err"}

(* ---------------------------------------------------------------- claims *)

\* The operation is a call of executeDbQuery by the session or directly.
IsExec == req.op \in {"query", "direct"}

\* The commands attempt a handed to the connection, in the order handed.
OfAttempt(a, x) == x.attempt = a
AttemptCalls(a) == SelectSeq(issued, LAMBDA x : OfAttempt(a, x))

\* The number of results a successful call of the request returns.
Expected == IF req.multi THEN req.n ELSE 1

\* The value a successful call returns is, position by position, the result
\* of the statement at that position in attempt a.
ResultsOfAttempt(a) ==
  /\ Len(ret.value) = Expected
  /\ \A k \in 1..Expected :
       \E c \in DOMAIN issued :
         /\ issued[c].attempt = a /\ issued[c].stmt = k
         /\ issued[c].answer = "ok"
         /\ ret.value[k] = Result(k, c)

\* C1: a unit of work that fails with a conflict on every attempt is invoked
\* exactly 3 times, never a 4th time, and executeDbQuery then fails with the
\* conflict failure of the third attempt.
C1_RetryExhaustion ==
  /\ attempt <= 3
  /\ (/\ IsExec /\ pc = "idle"
      /\ Len(attemptErrs) = attempt
      /\ \A k \in 1..attempt : IsConflict(attemptErrs[k]))
     => (attempt = 3 /\ ret = Threw(attemptErrs[3]))

C1_Witness ==
  /\ IsExec /\ pc = "idle" /\ req.client \in Handles
  /\ attempt = 3 /\ Len(attemptErrs) = 3
  /\ \A k \in 1..3 : IsConflict(attemptErrs[k])
  /\ ret.status = "err" /\ ret.err.call = Len(issued)

\* C2: when attempts 1 and 2 fail with a conflict and attempt 3 does not
\* fail, executeDbQuery returns, after exactly 3 invocations, the results the
\* statements got in attempt 3, and none of an earlier attempt.
C2_RetrySuccess ==
  (/\ IsExec /\ pc = "idle"
   /\ Len(attemptErrs) = 2
   /\ IsConflict(attemptErrs[1]) /\ IsConflict(attemptErrs[2]))
  => (attempt = 3 /\ ret.status = "ok" /\ ResultsOfAttempt(3))

C2_Witness ==
  /\ IsExec /\ pc = "idle" /\ req.multi /\ ~req.parallel /\ req.n = 2
  /\ Len(attemptErrs) = 2
  /\ attemptErrs[1].call = 2 /\ attemptErrs[2].call = 4
  /\ attempt = 3 /\ ret.status = "ok"
  /\ ret.value = <<Result(1, 5), Result(2, 6)>>

\* C3: a failure that is no conflict ends the call in the attempt it occurs
\* in: no further attempt is made (one invocation in all when it is the first
\* failure) and executeDbQuery throws that very failure.
C3_NonConflictNotRetried ==
  IsExec =>
    \A k \in DOMAIN attemptErrs :
      ~IsConflict(attemptErrs[k]) =>
        /\ k = Len(attemptErrs) /\ attempt = k
        /\ pc = "idle"
        /\ ret = Threw(attemptErrs[k])

C3_Witness ==
  /\ IsExec /\ pc = "idle" /\ attempt = 1
  /\ Len(attemptErrs) = 1 /\ attemptErrs[1].code = "23505"
  /\ ret = Threw(PgError("23505", 1))

\* C4: a request with a list of statements, on a valid handle, whose params
\* is no array or has another length, fails with the DatabaseError
\* "Mismatched SQL queries and parameters", in one attempt, and no command
\* is handed to the connection, in sequential and in parallel mode.
C4_MismatchRejected ==
  (/\ IsExec /\ req.client \in Handles
   /\ req.multi /\ (~req.pArr \/ req.n # req.pLen))
  => /\ issued = <<>>
     /\ attempt = 1
     /\ pc \in {"attempt", "idle"}
     /\ pc = "idle" =>
          ret = Threw(DatabaseError("Mismatched SQL queries and parameters", "undefined"))

C4_Witness ==
  /\ IsExec /\ pc = "idle" /\ req.client \in Handles
  /\ req.multi /\ req.parallel /\ req.pArr /\ req.n = 1 /\ req.pLen = 2
  /\ ret.status = "err" /\ ret.err.cls = "DatabaseError"
  /\ issued = <<>>

\* C5: with no client, or a client that is no connection, executeDbQuery (so
\* the session's query() before initializeConnection()) fails in its first
\* attempt with the DatabaseError "Could'nt find a client connection", hands
\* no command to anything, and does so whatever the shape of sql and params.
C5_NoClientRejected ==
  (IsExec /\ req.client \notin Handles)
  => /\ issued = <<>>
     /\ attempt = 1
     /\ pc \in {"attempt", "idle"}
     /\ pc = "idle" =>
          ret = Threw(DatabaseError("Could'nt find a client connection", "undefined"))

C5_Witness ==
  /\ req.op = "query" /\ pc = "idle" /\ req.client = NoClient
  /\ req.multi /\ req.n # req.pLen
  /\ ret.status = "err" /\ ret.err.msg = "Could'nt find a client connection"

\* An answer of the connection that is an error and no conflict.
PlainFailure(o) == o \in {"23505", "undefined"}

\* C6: in sequential mode, when the connection answers statement Si with a
\* failure that is no conflict, the attempt has handed exactly S1..Si to the
\* connection, in that order, nothing is handed over after Si, no command
\* other than the caller's statements (no ROLLBACK) was issued, and the call
\* throws exactly Si's failure.
C6_SequentialStopsAtFailure ==
  \A c \in DOMAIN issued :
    (IsExec /\ req.multi /\ ~req.parallel /\ PlainFailure(issued[c].answer))
    => /\ pc = "idle" /\ inflight = {}
       /\ c = Len(issued) /\ issued[c].attempt = attempt
       /\ Len(AttemptCalls(attempt)) = issued[c].stmt
       /\ \A k \in 1..issued[c].stmt : AttemptCalls(attempt)[k].stmt = k
       /\ \A d \in DOMAIN issued : issued[d].cmd = "STMT"
       /\ ret = Threw(PgError(issued[c].answer, c))

C6_Witness ==
  /\ IsExec /\ pc = "idle" /\ req.multi /\ ~req.parallel /\ req.n = 3
  /\ attempt = 1 /\ Len(issued) = 2
  /\ issued[1].answer = "ok" /\ issued[2].answer = "23505"
  /\ issued[2].stmt = 2
  /\ ret = Threw(PgError("23505", 2))

\* C7: a request with a list of statements that succeeds returns the list
\* [R1..Rn], Rk the result of statement k in the attempt that succeeded, in
\* parallel mode for every order in which the statements complete, and the
\* same list as in sequential mode.
C7_ParallelResultOrder ==
  (IsExec /\ pc = "idle" /\ req.multi /\ ret.status = "ok")
  => (ret.shape = "many" /\ ResultsOfAttempt(attempt))

C7_Witness ==
  /\ IsExec /\ pc = "idle" /\ req.multi /\ req.parallel /\ req.n = 3
  /\ ret.status = "ok" /\ reordered
  /\ ret.value = <<Result(1, 1), Result(2, 2), Result(3, 3)>>

\* C8 as claimed: a single-statement request on a valid handle that returns
\* has returned one result and handed exactly one command to the connection.
C8_ExactlyOneCall ==
  (IsExec /\ pc = "idle" /\ ~req.multi /\ req.client \in Handles
   /\ ret.status = "ok")
  => (ret.shape = "one" /\ Len(ret.value) = 1 /\ Len(issued) = 1)

\* C8 as amended: a single-statement request on a valid handle hands exactly
\* one command to the connection in each attempt (one in all unless an
\* attempt fails with a conflict, never more than 3), and when it returns it
\* returns exactly one result, no list: the result of its last command.
C8_OneCallPerAttempt ==
  (IsExec /\ ~req.multi /\ req.client \in Handles)
  => /\ Len(issued) = (IF pc = "attempt" THEN attempt - 1 ELSE attempt)
     /\ Len(issued) <= 3
     /\ \A c \in DOMAIN issued : issued[c].attempt = c /\ issued[c].stmt = 1
     /\ (pc = "idle" /\ \A k \in DOMAIN attemptErrs : ~IsConflict(attemptErrs[k]))
          => Len(issued) = 1
     /\ (pc = "idle" /\ ret.status = "ok")
          => (ret.shape = "one" /\ ret.value = <<Result(1, Len(issued))>>)

C8_Witness ==
  /\ IsExec /\ pc = "idle" /\ ~req.multi /\ req.client \in Handles
  /\ ret.status = "ok" /\ ret.shape = "one"
  /\ Len(issued) = 2 /\ ret.value = <<Result(1, 2)>>

\* The reference generated in the manager's last successful query().
LastRef ==
  IF genLog = <<>> THEN [uuid |-> Unset, timestamp |-> Unset]
  ELSE genLog[Len(genLog)]

\* C9: the manager holds, and retrieve() returns, the reference number and
\* the timestamp generated in its last successful query(), and nothing
\* before its first successful query().
C9_LatestQueryMetadata ==
  /\ mgr.made => (mgr.uuid = LastRef.uuid /\ mgr.timestamp = LastRef.timestamp)
  /\ (pc = "idle" /\ req.op = "retrieve")
       => /\ ret.status = "ok"
          /\ ret.info.referenceNo = LastRef.uuid
          /\ ret.info.timestamp = LastRef.timestamp

C9_Witness ==
  /\ pc = "idle" /\ req.op = "retrieve" /\ txState = "Active"
  /\ Len(genLog) = 2
  /\ ret.info.referenceNo = genLog[2].uuid
  /\ ret.info.referenceNo # genLog[1].uuid

\* C10: rollback() never throws, whatever the connection answers ROLLBACK
\* with.
C10_RollbackNeverThrows ==
  (pc = "idle" /\ req.op = "rollback") => ret.status = "ok"

\* C11 as claimed: rollback() on a manager on which init() was never called
\* succeeds and hands no command to the connection.
C11_NoInitNoCommand ==
  (req.op = "rollback" /\ ~initCalled)
  => /\ issued = <<>>
     /\ pc = "idle" /\ ret.status = "ok"

\* C11 as amended: rollback() on a manager with no connection bound succeeds
\* in the step it is called in and hands no command to anything; on a manager
\* with a connection bound it hands exactly ROLLBACK to that connection,
\* whether init() was called on the manager or not.
C11_RollbackIssuesIffBound ==
  req.op = "rollback"
  => /\ req.client = mgr.client
     /\ req.client = NoClient
          => (pc = "idle" /\ ret = Returned("void", <<>>) /\ issued = <<>>)
     /\ req.client # NoClient
          => (issued = <<[Cmd("ROLLBACK", 0, req.client, 1)
                           EXCEPT !.answer = issued[1].answer]>>)

C11_Witness ==
  /\ pc = "idle" /\ req.op = "rollback" /\ ~initCalled
  /\ mgr.made /\ mgr.client = NoClient
  /\ ret.status = "ok" /\ issued = <<>>

\* C12: commit() succeeds only when COMMIT was handed to the connection and
\* answered with success. With no connection bound it fails at once with a
\* TransactionError and hands over no command; when the connection answers
\* COMMIT with any failure (also on a manager whose init() never ran),
\* commit() fails with a TransactionError.
C12_CommitFailsClassified ==
  req.op = "commit"
  => /\ req.client = NoClient
          => /\ pc = "idle" /\ issued = <<>>
             /\ ret.status = "err" /\ ret.err.cls = "TransactionError"
     /\ req.client # NoClient
          => /\ Len(issued) = 1 /\ issued[1].cmd = "COMMIT"
             /\ pc = "idle" =>
                  /\ ret.status = "ok" <=> issued[1].answer = "ok"
                  /\ ret.status = "err" => ret.err.cls = "TransactionError"

C12_Witness ==
  /\ pc = "idle" /\ req.op = "commit" /\ ~initCalled
  /\ req.client \in Handles
  /\ issued[1].answer = "23505"
  /\ ret.status = "err" /\ ret.err.cls = "TransactionError"
  /\ ret.err.about = "23505"

\* C13: init() with no connection bound fails at once with a TransactionError
\* (its own DatabaseError, wrapped) and hands over no command; with a
\* connection it hands over exactly BEGIN, and a failure the connection
\* answers BEGIN with, being no DatabaseError or TransactionError, is thrown
\* as the very error object the connection raised.
C13_InitClassification ==
  req.op = "init"
  => /\ req.client = NoClient
          => /\ pc = "idle" /\ issued = <<>>
             /\ ret.status = "err" /\ ret.err.cls = "TransactionError"
             /\ ret.err.about = "DB_ERR"
     /\ req.client # NoClient
          => /\ Len(issued) = 1 /\ issued[1].cmd = "BEGIN"
             /\ pc = "idle" =>
                  IF issued[1].answer = "ok"
                    THEN ret = Returned("void", <<>>)
                    ELSE ret = Threw(PgError(issued[1].answer, 1))

C13_Witness ==
  /\ pc = "idle" /\ req.op = "init" /\ req.client \in Handles
  /\ issued[1].answer = "undefined"
  /\ ret.status = "err" /\ ret.err.cls = "Error" /\ ret.err.call = 1

\* C14: releaseConnection() called while the session holds no handle returns
\* without throwing, and releases nothing.
C14_ReleaseNoHandleSilent ==
  (pc = "idle" /\ req.op = "releaseConnection" /\ req.client = NoClient)
  => ret.status = "ok"

\* Attempt a of the request has handed its first command over, if it has any.
Started(a) == a < attempt \/ (a = attempt /\ pc # "attempt")

\* C15: in sequential mode every attempt hands the statements over from S1
\* on, in order, so after an attempt that failed with a conflict at Si the
\* next attempt issues S1..S(i-1) a second time; a call that returns returns
\* the n results of its last attempt and nothing of an earlier one.
C15_WholeUnitRetry ==
  (IsExec /\ req.multi /\ ~req.parallel /\ req.client \in Handles
   /\ req.pArr /\ req.n = req.pLen /\ req.n > 0)
  => /\ \A a \in 1..attempt :
          /\ Started(a) => Len(AttemptCalls(a)) >= 1
          /\ \A k \in DOMAIN AttemptCalls(a) : AttemptCalls(a)[k].stmt = k
     /\ \A a \in 1..(attempt - 1) :
          /\ IsConflict(attemptErrs[a])
          /\ issued[attemptErrs[a].call].attempt = a
          /\ issued[attemptErrs[a].call].stmt = Len(AttemptCalls(a))
     /\ (pc = "idle" /\ ret.status = "ok")
          => /\ ResultsOfAttempt(attempt)
             /\ \A k \in DOMAIN ret.value :
                  issued[ret.value[k].call].attempt = attempt

C15_Witness ==
  /\ IsExec /\ pc = "idle" /\ req.multi /\ ~req.parallel /\ req.n = 3
  /\ attempt = 2 /\ Len(issued) = 5
  /\ issued[2].stmt = 2 /\ issued[2].answer = "40P01"
  /\ issued[3].stmt = 1 /\ issued[4].stmt = 2 /\ issued[5].stmt = 3
  /\ ret.status = "ok"
  /\ ret.value = <<Result(1, 3), Result(2, 4), Result(3, 5)>>

\* A well-formed request with a list of statements, on a connection.
WellFormedList ==
  /\ IsExec /\ req.multi /\ req.client \in Handles
  /\ req.pArr /\ req.n = req.pLen /\ req.n > 0

\* C16: a call in parallel mode that has settled has none of its statements
\* in flight on the connection.
C16_ParallelWaitsForAll ==
  (IsExec /\ req.multi /\ req.parallel /\ pc = "idle") => inflight = {}

\* The calls of attempt a the connection answered with a failure that the
\* attempt observed.
FailedCalls(a) ==
  {c \in DOMAIN issued :
     issued[c].attempt = a /\ issued[c].answer \in Outcomes \ {"ok"}}

C18_SequentialOrdering ==
  (WellFormedList /\ ~req.parallel)
  => /\ Cardinality(inflight) <= 1
     /\ inflight \subseteq {Len(issued)}
     /\ \A c \in DOMAIN issued :
          /\ issued[c].stmt \in 1..req.n
          /\ issued[c].stmt > 1
               => /\ c > 1
                  /\ issued[c - 1].attempt = issued[c].attempt
                  /\ issued[c - 1].stmt = issued[c].stmt - 1
                  /\ issued[c - 1].answer = "ok"
          /\ (c > 1 /\ issued[c].stmt = 1)
               => issued[c - 1].attempt < issued[c].attempt

C18_Witness ==
  /\ WellFormedList /\ ~req.parallel /\ req.n = 3
  /\ pc = "seq" /\ attempt = 1 /\ Len(issued) = 3
  /\ issued[1].answer = "ok" /\ issued[2].answer = "ok"
  /\ issued[3].stmt = 3 /\ inflight = {3}

\* This step settles a query() of the manager with success.
TxQuerySucceeds ==
  /\ req.op = "txQuery" /\ pc # "idle"
  /\ pc' = "idle" /\ ret'.status = "ok"

\* C19: in a step on one manager (transaction() makes another one), the
\* manager's reference number and timestamp are overwritten, once, with a
\* newly generated reference when the step settles a query() with success,
\* whatever the number of the attempt; every other step (an attempt or a
\* retry of a query(), a query() that fails, init(), commit(), rollback(),
\* retrieve() and the session's operations) leaves both as they are, and
\* retrieve() hands no command to the connection.
C19_MetadataFrame ==
  [][/\ req'.op # "transaction"
        => IF TxQuerySucceeds
             THEN /\ genLog' = Append(genLog, [uuid |-> mgr'.uuid,
                                                timestamp |-> mgr'.timestamp])
                  /\ mgr'.uuid # mgr.uuid /\ mgr'.timestamp # mgr.timestamp
                  /\ mgr'.uuid = refSeq' /\ refSeq' = refSeq + 1
             ELSE /\ mgr'.uuid = mgr.uuid /\ mgr'.timestamp = mgr.timestamp
                  /\ genLog' = genLog /\ refSeq' = refSeq
     /\ req'.op = "retrieve" => (issued' = <<>> /\ inflight' = {})
    ]_vars

C19_Witness ==
  /\ req.op = "txQuery" /\ pc = "idle" /\ ret.status = "ok"
  /\ attempt = 3 /\ Len(attemptErrs) = 2
  /\ Len(genLog) = 2 /\ mgr.uuid = genLog[2].uuid

\* The failure the last attempt of the execution ended with.
LastFailure == attemptErrs[Len(attemptErrs)]

C21_NoAutoRollback ==
  req.op = "txQuery"
  => \A c \in DOMAIN issued :
       /\ issued[c].cmd = "STMT"
       /\ issued[c].stmt \in 1..req.n
       /\ issued[c].h = mgr.client

C21_Witness ==
  /\ req.op = "txQuery" /\ pc = "idle" /\ ret.status = "err"
  /\ txState = "Active"
  /\ attempt = 3 /\ Len(issued) = 3
  /\ \A c \in 1..3 : issued[c].cmd = "STMT" /\ issued[c].answer = "40P01"

\* The command init(), commit() or rollback() sends.
CtlCmd(op) ==
  IF op = "init" THEN "BEGIN" ELSE IF op = "commit" THEN "COMMIT" ELSE "ROLLBACK"

\* C22: on a manager with a connection bound, every init(), commit() and
\* rollback() hands its command to the connection, and every well-formed
\* query() its first statement, in whatever state the transaction is: also
\* COMMIT or ROLLBACK after it is Terminated, and statements before init().
C22_NoStateGuard ==
  /\ (req.op \in {"init", "commit", "rollback"} /\ req.client # NoClient)
       => /\ Len(issued) = 1
          /\ issued[1].cmd = CtlCmd(req.op) /\ issued[1].h = mgr.client
  /\ (/\ req.op = "txQuery" /\ req.client \in Handles /\ Started(1)
      /\ req.multi => (req.pArr /\ req.n = req.pLen /\ req.n > 0))
       => /\ Len(issued) >= 1
          /\ issued[1].cmd = "STMT" /\ issued[1].h = mgr.client

C22_Witness ==
  /\ req.op = "commit" /\ txState = "Terminated"
  /\ pc = "ctl" /\ inflight = {1}
  /\ issued = <<Cmd("COMMIT", 0, mgr.client, 1)>>

\* C23: a connection leaves the set of connections checked out of the pool
\* only in a step that is the session's releaseConnection(), and it is the
\* session's connection; no call of the manager (init, query, commit,
\* rollback, retrieve), succeeding or failing, and no step of one changes
\* what is checked out.
C23_ManagerNeverReleases ==
  [][/\ \A h \in leased \ leased' :
          /\ pc = "idle" /\ req'.op = "releaseConnection"
          /\ h = client /\ leased' = leased \ {h}
     /\ (\/ pc # "idle"
         \/ req'.op \in {"init", "txQuery", "commit", "rollback", "retrieve",
                          "transaction"})
          => leased' = leased
    ]_vars

C23_Witness ==
  /\ req.op = "rollback" /\ pc = "idle" /\ ret.status = "ok"
  /\ txState = "Terminated" /\ mgr.uuid # Unset
  /\ mgr.client \in Handles /\ mgr.client \in leased

\* C24: a call of init() hands BEGIN to the connection at most once and a
\* call of commit() COMMIT at most once, in one attempt with no backoff, also
\* when the connection answers with a conflict: the call then fails at once.
\* A second attempt is made only for the statements of a query.
C24_ControlNotRetried ==
  /\ req.op \in {"init", "commit"}
       => /\ Len(issued) <= 1 /\ attempt = 1
          /\ attemptErrs = <<>> /\ delays = <<>>
          /\ \A c \in DOMAIN issued :
               /\ issued[c].cmd = CtlCmd(req.op)
               /\ issued[c].answer = "40P01"
                    => (pc = "idle" /\ inflight = {} /\ ret.status = "err")
  /\ (attempt > 1 \/ pc = "backoff") => req.op \in {"query", "txQuery"}

C24_Witness ==
  /\ req.op = "commit" /\ pc = "idle" /\ txState = "Active"
  /\ Len(issued) = 1 /\ issued[1].cmd = "COMMIT"
  /\ issued[1].answer = "40P01"
  /\ ret.status = "err" /\ ret.err.about = "40P01"

\* C25: the session has at most one connection checked out of the pool at
\* any time, and once a call of releaseConnection() has ended, every
\* connection the session took from the pool is back in it.
C25_NoHandleLeak ==
  /\ Cardinality(leased) <= 1
  /\ (pc = "idle" /\ req.op = "releaseConnection") => leased = {}

\* C26: every wait between two attempts is longer than zero, the wait before
\* attempt k+1 is no shorter than the wait before attempt k, and one wait
\* precedes each attempt after the first.
C26_BackoffMonotone ==
  IsExec
  => /\ Len(delays) = (IF pc = "backoff" THEN attempt ELSE attempt - 1)
     /\ \A k \in DOMAIN delays :
          /\ delays[k] > 0
          /\ k > 1 => delays[k] >= delays[k - 1]
          /\ IsConflict(attemptErrs[k])

C26_Witness ==
  /\ IsExec /\ pc = "attempt" /\ attempt = 3
  /\ Len(delays) = 2 /\ delays[1] > 0 /\ delays[2] >= delays[1]
  /\ Len(attemptErrs) = 2

\* The session's connection is one it has given back to the pool.
Released == client \in Handles /\ client \notin leased

\* C27: releaseConnection() leaves the session's `client` as it is, so after
\* a release the session still refers to the released connection: a query()
\* of the session and a manager made by transaction() afterwards run on it,
\* every command goes to the connection of its operation whether or not it
\* is checked out, and a second releaseConnection() releases the same
\* connection again, which the pool refuses, and throws a DatabaseError.
C27_ReleaseKeepsHandle ==
  [][/\ (pc = "idle" /\ req'.op = "releaseConnection")
          => /\ client' = client /\ req'.client = client
             /\ client \in leased
                  => (ret'.status = "ok" /\ leased' = leased \ {client})
             /\ Released
                  => /\ ret'.status = "err" /\ ret'.err.cls = "DatabaseError"
                     /\ ret'.err.msg = "already released"
                     /\ leased' = leased
     /\ (pc = "idle" /\ req'.op = "query") => req'.client = client
     /\ (pc = "idle" /\ req'.op = "transaction") => mgr'.client = client
     /\ (pc = "idle" /\ req'.op \in {"txQuery", "commit", "rollback", "init"})
          => req'.client = mgr.client
     /\ Len(issued') > Len(issued)
          => issued'[Len(issued')].h = req'.client
    ]_vars

C27_Witness ==
  /\ Released /\ mgr.client = client
  /\ req.op = "commit" /\ pc = "ctl"
  /\ issued = <<Cmd("COMMIT", 0, client, 1)>>

\* An operation of the manager.
MgrOps == {"init", "txQuery", "commit", "rollback", "retrieve"}

\* C28: transaction() binds the new manager to the connection the session
\* holds at that moment, and no other step changes what a manager is bound
\* to. A manager bound to nothing stays so whatever the session does later:
\* its retrieve() reports no connection, its init(), commit() and query()
\* fail and its rollback() succeeds, all without a command; a manager bound
\* to a connection hands its commands to that connection also when the
\* session holds another one by then.
C28_NeverRebinds ==
  [][/\ IF pc = "idle" /\ req'.op = "transaction"
          THEN mgr'.made /\ mgr'.client = client
          ELSE mgr'.made = mgr.made /\ mgr'.client = mgr.client
     /\ (req'.op \in MgrOps /\ pc' = "idle" /\ mgr'.client = NoClient)
          => /\ issued' = <<>>
             /\ req'.op = "retrieve" => ~ret'.info.connection
             /\ req'.op \in {"init", "commit", "txQuery"}
                  => (ret'.status = "err" /\ ret'.err.cls = "TransactionError")
             /\ req'.op = "rollback" => ret'.status = "ok"
     /\ (req'.op \in MgrOps /\ Len(issued') > Len(issued))
          => issued'[Len(issued')].h = mgr.client
    ]_vars

C28_Witness ==
  /\ mgr.made /\ mgr.client = NoClient
  /\ client \in Handles /\ client \in leased
  /\ req.op = "init" /\ pc = "idle" /\ issued = <<>>
  /\ ret.status = "err" /\ ret.err.cls = "TransactionError"

====
